---- MODULE Spec2Model ----
(***************************************************************************)
(* Cohort metrics pipeline of DataModel-ClinicalData.                      *)
(*                                                                         *)
(* data_pipeline exists in three redundant implementations                 *)
(* (analytics_data_model.py, pandas_DataModel.py, polars_DataModel.py).    *)
(* The variable impl says which one runs; the operators below take the     *)
(* implementation as a parameter wherever the three differ.                *)
(*                                                                         *)
(* Time is counted in hundredths of a day, so that the month length        *)
(* 30.44 days of analytics_data_model.py is the integer 3044 and           *)
(* sub-day timestamp components can be represented.  Weights are integers. *)
(* A missing value (pandas NaN / NaT, polars null) is the value NaN.       *)
(***************************************************************************)
EXTENDS Integers, Sequences, FiniteSets, TLC

VARIABLES impl, cohort, users, weights, treatments, merged_df, gender, pc

vars == <<impl, cohort, users, weights, treatments, merged_df, gender, pc>>

\* the missing value: smaller than every weight, timestamp and difference
NaN == -1000000

-----------------------------------------------------------------------------
(* Bounds of the explored inputs *)

MaxWeights == 2
MaxEpisodes == 2

\* one day and one week in time units
Day == 100
DaysInWeek == 7

\* defaults of the filter arguments
min_age == 18
max_age == 72
ClinicID == 5066

Impls == {"analytics", "pandas", "polars"}
Cohorts == {"week", "month"}
Genders == {"all", "Male", "Female"}

WeightValues == {68, 70}
\* weigh-in timestamps: day 1 and the middle of day 30
WeighInTimes == {1 * Day, 30 * Day + 50}
\* episode start timestamps: day 0 and day 5
StartTimes == {0, 5 * Day}
TreatmentTypes == {1, 2}

\* users.csv rows; UID 1 is the patient under study, UID 2 a bystander
\* patient of the other gender
UserRow(uid) ==
    [UID |-> uid,
     Gender |-> IF uid = 1 THEN "Female" ELSE "Male",
     Age |-> 30,
     ClinicID |-> ClinicID,
     CreatedDate |-> 0]

\* the bystander: not there at all; records in weights.csv and
\* treatments.csv but no row in users.csv; a user without any record; a
\* user with one weight record and one episode
Bystanders == {"none", "orphan", "bare", "full"}

\* users.csv is not in key order
UsersTable(b) ==
    IF b \in {"bare", "full"} THEN <<UserRow(2), UserRow(1)>>
    ELSE <<UserRow(1)>>

BystanderWeights(b) ==
    IF b \in {"orphan", "full"}
    THEN <<[MasterUserID |-> 2, Weight |-> 70, CreatedDate |-> 1 * Day,
            UpdatedDate |-> 1 * Day]>>
    ELSE <<>>

BystanderTreatments(b) ==
    IF b \in {"orphan", "full"}
    THEN <<[MasterUserID |-> 2, TreatmentTypeID |-> 1, StartDate |-> 0]>>
    ELSE <<>>

\* the weight records of patient 1
WeightPool ==
    {[MasterUserID |-> 1, Weight |-> w, CreatedDate |-> c, UpdatedDate |-> u] :
        w \in WeightValues, c \in WeighInTimes, u \in {NaN, 31 * Day}}

\* the episodes of patient 1
TreatmentPool ==
    {[MasterUserID |-> 1, TreatmentTypeID |-> t, StartDate |-> s] :
        t \in TreatmentTypes, s \in StartTimes}

\* The files list the records of patient 1 newest first (weights.csv) and
\* by descending treatment type and start (treatments.csv): the reverse of
\* the order the pipeline sorts them into.  Repeated records are allowed.
WeightRank(r) ==
    r.CreatedDate * 1000 + r.Weight * 2 + (IF r.UpdatedDate = NaN THEN 0 ELSE 1)

TreatmentRank(r) == r.TreatmentTypeID * 1000 + r.StartDate

NewestFirst(s) ==
    \A i \in 1..(Len(s) - 1) : WeightRank(s[i]) >= WeightRank(s[i + 1])

HighestFirst(s) ==
    \A i \in 1..(Len(s) - 1) : TreatmentRank(s[i]) >= TreatmentRank(s[i + 1])

SeqsUpTo(S, n) == UNION {[1..k -> S] : k \in 0..n}

-----------------------------------------------------------------------------
(* Sequence helpers *)

RECURSIVE Concat(_)
Concat(ss) == IF ss = <<>> THEN <<>> ELSE Head(ss) \o Concat(Tail(ss))

Indices(s) == 1..Len(s)

\* a sequence given as a function, with every element computed once
Strict(s) == s \o <<>>

Min(S) == CHOOSE x \in S : \A y \in S : x <= y
Max(S) == CHOOSE x \in S : \A y \in S : x >= y

-----------------------------------------------------------------------------
(* Join: users <> weights, then <> treatments (both left joins on UID) *)

\* a joined row; w = 0 or t = 0 stands for the absent side.  wrow and trow
\* are the positions of the joined records in weights.csv and
\* treatments.csv; they are bookkeeping of the model, not columns.
JoinedRow(user, wts, tmts, w, t) ==
    [UID |-> user.UID,
     Gender |-> user.Gender,
     Age |-> user.Age,
     ClinicID |-> user.ClinicID,
     UIDCreatedDate |-> user.CreatedDate,
     Weight |-> IF w = 0 THEN NaN ELSE wts[w].Weight,
     Weights_CreatedDate |-> IF w = 0 THEN NaN ELSE wts[w].CreatedDate,
     Weights_UpdatedDate |-> IF w = 0 THEN NaN ELSE wts[w].UpdatedDate,
     TreatmentTypeID |-> IF t = 0 THEN NaN ELSE tmts[t].TreatmentTypeID,
     Treatment_StartDate |-> IF t = 0 THEN NaN ELSE tmts[t].StartDate,
     month |-> NaN,
     week |-> NaN,
     weigh_in_rate |-> NaN,
     patient_starting_weight |-> NaN,
     treatment_starting_weight |-> NaN,
     treatment_TBWL |-> NaN,
     patient_TBWL |-> NaN,
     wrow |-> w,
     trow |-> t]

\* the positions of the rows of a right table that match a key, in table
\* order; <<0>> (one row of nulls) when there is none
RECURSIVE Matches(_, _, _)
Matches(right, key, i) ==
    IF i > Len(right) THEN <<>>
    ELSE (IF right[i].MasterUserID = key THEN <<i>> ELSE <<>>)
         \o Matches(right, key, i + 1)

\* an inner join: a key without a match yields no row
InnerMatches(right, key) == Matches(right, key, 1)

LeftMatches(right, key) ==
    IF Matches(right, key, 1) = <<>> THEN <<0>> ELSE Matches(right, key, 1)

\* pd.merge(pd.merge(users, weights, how='left'), treatments, how='left'):
\* left order is kept, matches appear in right-table order
merge(us, wts, tmts) ==
    Concat([i \in Indices(us) |->
        LET ws == LeftMatches(wts, us[i].UID)
            ts == LeftMatches(tmts, us[i].UID)
        IN Concat([a \in Indices(ws) |->
               [b \in Indices(ts) |->
                   JoinedRow(us[i], wts, tmts, ws[a], ts[b])]])])

-----------------------------------------------------------------------------
(* Ordering: sort by UID, UIDCreatedDate, TreatmentTypeID,                 *)
(* Treatment_StartDate, Weights_CreatedDate, Weights_UpdatedDate           *)

\* pandas sort_values puts NaN last (na_position='last'), polars sort puts
\* null first (nulls_last=False)
SortKeyValue(im, v) == IF v = NaN /\ im # "polars" THEN -NaN ELSE v

\* a sort that leaves out the weight-record timestamps
SortKeyWithoutWeightDates(im, r) ==
    <<r.UID, r.UIDCreatedDate,
      SortKeyValue(im, r.TreatmentTypeID),
      SortKeyValue(im, r.Treatment_StartDate)>>

SortKey(im, r) ==
    <<r.UID, r.UIDCreatedDate,
      SortKeyValue(im, r.TreatmentTypeID),
      SortKeyValue(im, r.Treatment_StartDate),
      SortKeyValue(im, r.Weights_CreatedDate),
      SortKeyValue(im, r.Weights_UpdatedDate)>>

RECURSIVE LexLess(_, _)
LexLess(a, b) ==
    IF a = <<>> THEN FALSE
    ELSE Head(a) < Head(b) \/ (Head(a) = Head(b) /\ LexLess(Tail(a), Tail(b)))

\* insert r behind every row whose key is not larger (stable)
RECURSIVE Insert(_, _, _)
Insert(im, sorted, r) ==
    IF sorted = <<>> THEN <<r>>
    ELSE IF LexLess(SortKey(im, r), SortKey(im, Head(sorted)))
         THEN <<r>> \o sorted
         ELSE <<Head(sorted)>> \o Insert(im, Tail(sorted), r)

RECURSIVE SortFrom(_, _, _)
SortFrom(im, df, sorted) ==
    IF df = <<>> THEN sorted
    ELSE SortFrom(im, Tail(df), Insert(im, sorted, Head(df)))

\* the sorted table is dropped: the rows stay in join order
not_sorted(im, df) == df

\* the multi-column sort is a stable lexicographic sort
sort_values(im, df) == SortFrom(im, df, <<>>)

-----------------------------------------------------------------------------
(* Temporal bucketing: month and week since the episode start *)

\* Timedelta.days: whole days, rounded down
Days(delta) == delta \div Day

datediff(r) ==
    IF r.Weights_CreatedDate = NaN \/ r.Treatment_StartDate = NaN THEN NaN
    ELSE r.Weights_CreatedDate - r.Treatment_StartDate

\* month index of a non-null difference
\*   analytics: floor(delta / Timedelta(days=30.44)) + 1
\*   pandas:    floor(delta.days / 30.417)
\*   polars:    floor(delta / duration(days=30.417))
month_index(im, delta) ==
    IF im = "analytics" THEN (delta \div 3044) + 1
    ELSE IF im = "pandas" THEN (Days(delta) * 1000) \div 30417
    ELSE (delta * 10) \div 30417

\* a week index clamped to the first cohort
week_index_clamped(im, delta) ==
    IF im = "analytics"
    THEN (IF delta < 0 THEN 1 ELSE (Days(delta) \div DaysInWeek) + 1)
    ELSE IF im = "pandas"
    THEN (IF delta < 0 THEN 0 ELSE Days(delta) \div DaysInWeek)
    ELSE (IF delta < 0 THEN 0 ELSE delta \div (DaysInWeek * Day))

\* week index of a non-null difference
\*   analytics: delta.days // 7 + 1
\*   pandas:    floor(delta.days / 7)
\*   polars:    floor(delta / duration(days=7))
week_index(im, delta) ==
    IF im = "analytics" THEN (Days(delta) \div DaysInWeek) + 1
    ELSE IF im = "pandas" THEN Days(delta) \div DaysInWeek
    ELSE delta \div (DaysInWeek * Day)

\* math.floor(NaN) raises ValueError in the two pandas implementations;
\* polars floor() maps null to null
floor_raises(im, df) ==
    im # "polars" /\ \E i \in Indices(df) : datediff(df[i]) = NaN

bucket(im, df) ==
    Strict([i \in Indices(df) |->
               IF datediff(df[i]) = NaN THEN df[i]
               ELSE [df[i] EXCEPT !.month = month_index(im, datediff(df[i])),
                                  !.week = week_index(im, datediff(df[i]))]])

-----------------------------------------------------------------------------
(* Grouped aggregation *)

CohortValue(c, r) == IF c = "week" THEN r.week ELSE r.month

PatientKeys(df) ==
    Strict([i \in Indices(df) |-> <<df[i].UID>>])

EpisodeKeys(df) ==
    Strict([i \in Indices(df) |->
               <<df[i].UID, df[i].TreatmentTypeID, df[i].Treatment_StartDate>>])

CohortKeys(c, df) ==
    Strict([i \in Indices(df) |->
               <<df[i].UID, df[i].TreatmentTypeID, df[i].Treatment_StartDate,
                 CohortValue(c, df[i])>>])

Column(df, name) ==
    Strict([i \in Indices(df) |-> df[i][name]])

HasNull(key) == \E k \in DOMAIN key : key[k] = NaN

\* the rows grouped with row i.  pandas groupby drops the rows that have
\* a NaN in the key (dropna=True); polars over() groups null keys together
group(im, keys, i) ==
    IF im # "polars" /\ HasNull(keys[i]) THEN {}
    ELSE {j \in DOMAIN keys : keys[j] = keys[i]}

NotNull(col, G) == {j \in G : col[j] # NaN}

\* transform('count') / count().over(): number of non-null values
transform_count(im, keys, col) ==
    Strict([i \in DOMAIN keys |->
               IF group(im, keys, i) = {} THEN NaN
               ELSE Cardinality(NotNull(col, group(im, keys, i)))])

\* transform('first'): first non-null value of the group in row order;
\* polars first().over(): value of the first row of the group
transform_first(im, keys, col) ==
    Strict([i \in DOMAIN keys |->
               LET G == IF im = "polars" THEN group(im, keys, i)
                        ELSE NotNull(col, group(im, keys, i))
               IN IF G = {} THEN NaN ELSE col[Min(G)]])

\* transform('last') / last().over()
transform_last(im, keys, col) ==
    Strict([i \in DOMAIN keys |->
               LET G == IF im = "polars" THEN group(im, keys, i)
                        ELSE NotNull(col, group(im, keys, i))
               IN IF G = {} THEN NaN ELSE col[Max(G)]])

\* transform('max') / max().over(): largest non-null value
transform_max(im, keys, col) ==
    Strict([i \in DOMAIN keys |->
               LET G == NotNull(col, group(im, keys, i))
               IN IF G = {} THEN NaN ELSE Max({col[j] : j \in G})])

\* diff(-1): each row minus the row that follows it in the table
diff(col) ==
    Strict([i \in DOMAIN col |->
               IF i = Len(col) THEN NaN
               ELSE IF col[i] = NaN \/ col[i + 1] = NaN THEN NaN
               ELSE col[i] - col[i + 1]])

Minus(a, b) == IF a = NaN \/ b = NaN THEN NaN ELSE a - b

Negate(a) == IF a = NaN THEN NaN ELSE -a

SetColumn(df, name, col) ==
    Strict([i \in Indices(df) |-> [df[i] EXCEPT ![name] = col[i]]])

\* a count over the whole episode instead of the cohort group
weigh_in_rate_per_episode(im, c, df) ==
    transform_count(im, EpisodeKeys(df), Column(df, "Weights_UpdatedDate"))

weigh_in_rate(im, c, df) ==
    transform_count(im, CohortKeys(c, df), Column(df, "Weights_UpdatedDate"))

patient_starting_weight(im, df) ==
    transform_first(im, PatientKeys(df), Column(df, "Weight"))

treatment_starting_weight(im, df) ==
    transform_first(im, EpisodeKeys(df), Column(df, "Weight"))

\* the first weight of the episode taken for the ending weight
tew_first(im, df) == transform_first(im, EpisodeKeys(df), Column(df, "Weight"))

\* treatment ending weight
tew(im, df) == transform_last(im, EpisodeKeys(df), Column(df, "Weight"))

treatment_TBWL(im, df) ==
    LET ending == tew(im, df)
    IN Strict([i \in Indices(df) |->
                  Minus(ending[i], df[i].treatment_starting_weight)])

\* first weight of the row's cohort group, differenced row by row
wgt_diff(im, c, df) ==
    diff(transform_first(im, CohortKeys(c, df), Column(df, "Weight")))

\* analytics_data_model.py negates the grouped maximum, the other two
\* implementations do not
patient_TBWL(im, c, df) ==
    LET m == transform_max(im, CohortKeys(c, df), wgt_diff(im, c, df))
    IN [i \in Indices(df) |->
           IF im = "analytics" THEN Negate(m[i]) ELSE m[i]]

-----------------------------------------------------------------------------
(* Filter and return *)

filters(df, g, lo, hi, clinic) ==
    LET keep(r) == /\ g = "all" \/ r.Gender = g
                   /\ r.Age >= lo /\ r.Age <= hi
                   /\ r.ClinicID = clinic
    IN SelectSeq(df, keep)

\* the columns of a row (the bookkeeping fields are not columns)
Columns(r) == [r EXCEPT !.wrow = 0, !.trow = 0]

\* drop_duplicates(): keep the first of the rows equal on every column
RECURSIVE DropFrom(_, _)
DropFrom(df, kept) ==
    IF df = <<>> THEN kept
    ELSE IF \E k \in Indices(kept) : Columns(kept[k]) = Columns(Head(df))
         THEN DropFrom(Tail(df), kept)
         ELSE DropFrom(Tail(df), Append(kept, Head(df)))

drop_duplicates(df) == DropFrom(df, <<>>)

\* polars_DataModel.py returns the filtered table as it is
returned(im, df) == IF im = "polars" THEN df ELSE drop_duplicates(df)

-----------------------------------------------------------------------------
(* The table of data_pipeline before the filter, as a function of the      *)
(* three loaded tables (defined when the bucketing does not raise)         *)

with_weigh_in_rate(im, c, df) ==
    SetColumn(df, "weigh_in_rate", weigh_in_rate(im, c, df))

with_starting_weights(im, df) ==
    SetColumn(SetColumn(df, "patient_starting_weight",
                        patient_starting_weight(im, df)),
              "treatment_starting_weight", treatment_starting_weight(im, df))

with_treatment_TBWL(im, df) ==
    SetColumn(df, "treatment_TBWL", treatment_TBWL(im, df))

with_patient_TBWL(im, c, df) ==
    SetColumn(df, "patient_TBWL", patient_TBWL(im, c, df))

metrics_table(im, c, us, wts, tmts) ==
    with_patient_TBWL(im, c,
      with_treatment_TBWL(im,
        with_starting_weights(im,
          with_weigh_in_rate(im, c,
            bucket(im, sort_values(im, merge(us, wts, tmts)))))))

-----------------------------------------------------------------------------

Init ==
    /\ impl \in Impls
    /\ cohort \in Cohorts
    /\ \E b \in Bystanders :
          /\ users = UsersTable(b)
          /\ \E w \in SeqsUpTo(WeightPool, MaxWeights) :
                /\ NewestFirst(w)
                /\ weights = BystanderWeights(b) \o w
          /\ \E t \in SeqsUpTo(TreatmentPool, MaxEpisodes) :
                /\ HighestFirst(t)
                /\ treatments = BystanderTreatments(b) \o t
    /\ merged_df = <<>>
    /\ gender = "all"
    /\ pc = "load"

Merge ==
    /\ pc = "load"
    /\ merged_df' = merge(users, weights, treatments)
    /\ pc' = "merged"
    /\ UNCHANGED <<impl, cohort, users, weights, treatments, gender>>

SortValues ==
    /\ pc = "merged"
    /\ merged_df' = sort_values(impl, merged_df)
    /\ pc' = "sorted"
    /\ UNCHANGED <<impl, cohort, users, weights, treatments, gender>>

\* the run dies with ValueError when a month value is NaN
Bucket ==
    /\ pc = "sorted"
    /\ IF floor_raises(impl, merged_df)
       THEN /\ pc' = "ValueError"
            /\ UNCHANGED merged_df
       ELSE /\ pc' = "bucketed"
            /\ merged_df' = bucket(impl, merged_df)
    /\ UNCHANGED <<impl, cohort, users, weights, treatments, gender>>

WeighInRate ==
    /\ pc = "bucketed"
    /\ merged_df' = with_weigh_in_rate(impl, cohort, merged_df)
    /\ pc' = "weigh_in_rate"
    /\ UNCHANGED <<impl, cohort, users, weights, treatments, gender>>

StartingWeights ==
    /\ pc = "weigh_in_rate"
    /\ merged_df' = with_starting_weights(impl, merged_df)
    /\ pc' = "starting_weights"
    /\ UNCHANGED <<impl, cohort, users, weights, treatments, gender>>

TreatmentTBWL ==
    /\ pc = "starting_weights"
    /\ merged_df' = with_treatment_TBWL(impl, merged_df)
    /\ pc' = "treatment_TBWL"
    /\ UNCHANGED <<impl, cohort, users, weights, treatments, gender>>

PatientTBWL ==
    /\ pc = "treatment_TBWL"
    /\ merged_df' = with_patient_TBWL(impl, cohort, merged_df)
    /\ pc' = "metrics"
    /\ UNCHANGED <<impl, cohort, users, weights, treatments, gender>>

\* filters(...) with the gender argument of the call, then the return
Return ==
    /\ pc = "metrics"
    /\ \E g \in Genders :
          /\ gender' = g
          /\ merged_df' =
                returned(impl, filters(merged_df, g, min_age, max_age, ClinicID))
    /\ pc' = "returned"
    /\ UNCHANGED <<impl, cohort, users, weights, treatments>>

Next ==
    \/ Merge
    \/ SortValues
    \/ Bucket
    \/ WeighInRate
    \/ StartingWeights
    \/ TreatmentTBWL
    \/ PatientTBWL
    \/ Return

Spec == Init /\ [][Next]_vars

-----------------------------------------------------------------------------
(* Vocabulary of the properties: episodes and cohort groups of merged_df   *)

Rows == Indices(merged_df)

\* the table with all five metrics, before the filter
Computed == pc = "metrics"

SameEpisode(i, j) ==
    /\ merged_df[i].UID = merged_df[j].UID
    /\ merged_df[i].TreatmentTypeID = merged_df[j].TreatmentTypeID
    /\ merged_df[i].Treatment_StartDate = merged_df[j].Treatment_StartDate

Cv(i) == CohortValue(cohort, merged_df[i])

SameCohort(i, j) == SameEpisode(i, j) /\ Cv(i) = Cv(j)

InEpisode(i) ==
    /\ merged_df[i].TreatmentTypeID # NaN
    /\ merged_df[i].Treatment_StartDate # NaN

InCohort(i) == InEpisode(i) /\ Cv(i) # NaN

EpisodeRows(i) == {j \in Rows : SameEpisode(i, j)}

CohortRows(i) == {j \in Rows : SameCohort(i, j)}

\* Weight of the first row, in table order, of the cohort group of row i
FirstWeight(i) == merged_df[Min(CohortRows(i))].Weight

\* row j lies in the cohort group that follows the group of row i
IsNextCohort(i, j) ==
    /\ SameEpisode(i, j)
    /\ Cv(j) > Cv(i)
    /\ \A k \in EpisodeRows(i) : Cv(k) > Cv(i) => Cv(k) >= Cv(j)

IsLastCohort(i) == InCohort(i) /\ \A j \in EpisodeRows(i) : Cv(j) <= Cv(i)

-----------------------------------------------------------------------------
(* Properties *)

\* C1: in the table of analytics_data_model.py, patient_TBWL is null on
\* every row of the last cohort group of every episode
C1_LastCohortIsNull ==
    (impl = "analytics" /\ Computed) =>
        \A i \in Rows : IsLastCohort(i) => merged_df[i].patient_TBWL = NaN

\* C2: in the table of analytics_data_model.py, every row of a cohort group
\* that has a next cohort group in its episode carries
\* patient_TBWL = -(F[i] - F[i+1]), F being the first weight of a group
C2_ForwardDelta ==
    (impl = "analytics" /\ Computed) =>
        \A i, j \in Rows :
            (InCohort(i) /\ IsNextCohort(i, j)) =>
                merged_df[i].patient_TBWL = -(FirstWeight(i) - FirstWeight(j))

\* the weight records of a patient, as positions in weights.csv
WeightRecordsOf(uid) ==
    {k \in Indices(weights) : weights[k].MasterUserID = uid}

\* the chronologically first weight records of a patient
EarliestRecords(uid) ==
    {k \in WeightRecordsOf(uid) :
        \A m \in WeightRecordsOf(uid) :
            weights[k].CreatedDate <= weights[m].CreatedDate}

\* C3: patient_starting_weight on every row of a patient with weight
\* records is the Weight of the patient's chronologically first weight
\* record, whatever the order of the patient's episodes
C3_PatientStartingWeight ==
    Computed =>
        \A i \in Rows :
            WeightRecordsOf(merged_df[i].UID) # {} =>
                \E k \in EarliestRecords(merged_df[i].UID) :
                    merged_df[i].patient_starting_weight = weights[k].Weight

\* a patient with two episodes whose treatment type order is the reverse of
\* their chronological order, and whose first weight record in weights.csv
\* is not the earliest one
C3_Witness ==
    /\ Computed
    /\ impl = "analytics"
    /\ \E i, j \in Rows :
          /\ merged_df[i].UID = merged_df[j].UID
          /\ InEpisode(i) /\ InEpisode(j)
          /\ merged_df[i].TreatmentTypeID < merged_df[j].TreatmentTypeID
          /\ merged_df[i].Treatment_StartDate > merged_df[j].Treatment_StartDate
          /\ merged_df[i].Weight # merged_df[j].Weight
          /\ Min(WeightRecordsOf(merged_df[i].UID))
                \notin EarliestRecords(merged_df[i].UID)
          /\ merged_df[i].patient_starting_weight # NaN

\* C4: every row of an episode carries the Weight of the first row of the
\* episode as treatment_starting_weight and (Weight of the last row of the
\* episode) - treatment_starting_weight as treatment_TBWL
C4_TreatmentTBWL ==
    Computed =>
        \A i \in Rows :
            InEpisode(i) =>
                /\ merged_df[i].treatment_starting_weight =
                      merged_df[Min(EpisodeRows(i))].Weight
                /\ merged_df[i].treatment_TBWL =
                      Minus(merged_df[Max(EpisodeRows(i))].Weight,
                            merged_df[i].treatment_starting_weight)

\* an episode in which weight was lost: treatment_TBWL is negative on a row
\* that is neither the first nor the last row of the table
C4_Witness ==
    /\ Computed
    /\ \E i \in Rows :
          /\ InEpisode(i)
          /\ i > 1 /\ i < Len(merged_df)
          /\ merged_df[i].treatment_TBWL # NaN
          /\ merged_df[i].treatment_TBWL < 0
          /\ merged_df[i].treatment_starting_weight = 70

\* C5: weigh_in_rate on every row of a cohort group is the number of rows
\* of exactly that group whose weight-record updated timestamp is non-null
C5_WeighInRate ==
    Computed =>
        \A i \in Rows :
            InCohort(i) =>
                merged_df[i].weigh_in_rate =
                    Cardinality({j \in CohortRows(i) :
                                    merged_df[j].Weights_UpdatedDate # NaN})

\* a cohort group with one updated record, next to another cohort group of
\* the same episode and to another episode that hold updated records too
C5_Witness ==
    /\ Computed
    /\ \E i, j, k \in Rows :
          /\ InCohort(i)
          /\ merged_df[i].weigh_in_rate = 1
          /\ SameEpisode(i, j) /\ ~SameCohort(i, j)
          /\ merged_df[j].Weights_UpdatedDate # NaN
          /\ ~SameEpisode(i, k)
          /\ merged_df[k].Weights_UpdatedDate # NaN

\* C6: a joined row with a null weigh-in or episode-start timestamp does
\* not make the pandas implementations fail; its week and month are null,
\* it is left out of the aggregates grouped on the cohort key and it takes
\* part in patient_starting_weight
C6_NullTimestampTolerated ==
    impl # "polars" =>
        /\ pc # "ValueError"
        /\ Computed =>
              \A i \in Rows :
                  datediff(merged_df[i]) = NaN =>
                      /\ merged_df[i].week = NaN
                      /\ merged_df[i].month = NaN
                      /\ merged_df[i].weigh_in_rate = NaN
                      /\ merged_df[i].patient_TBWL = NaN
                      /\ WeightRecordsOf(merged_df[i].UID) # {} =>
                            merged_df[i].patient_starting_weight # NaN

UIDs == {users[u].UID : u \in Indices(users)}

EpisodeRecordsOf(uid) ==
    {k \in Indices(treatments) : treatments[k].MasterUserID = uid}

\* the positions a left join pairs a user with: the matching records, or
\* the single null position 0
Sides(S) == IF S = {} THEN {0} ELSE S

\* C7: the two left joins yield, for a user with N weight records and M
\* episodes, max(N,1) * max(M,1) rows: every (weight record, episode) pair
\* of the user exactly once, the fields of an absent side null, and no row
\* of anybody who is not a user
C7_LeftJoins ==
    pc \in {"merged", "sorted"} =>
        /\ \A i \in Rows : merged_df[i].UID \in UIDs
        /\ \A uid \in UIDs :
              LET W == Sides(WeightRecordsOf(uid))
                  T == Sides(EpisodeRecordsOf(uid))
              IN /\ Cardinality({i \in Rows : merged_df[i].UID = uid}) =
                       Cardinality(W) * Cardinality(T)
                 /\ \A w \in W, t \in T :
                       Cardinality({i \in Rows :
                           merged_df[i] =
                               JoinedRow(UserRow(uid), weights, treatments,
                                         w, t)}) = 1

\* one user with two weight records and two episodes (four rows) and a
\* second user who has neither (one row of nulls)
C7_Witness ==
    /\ pc = "merged"
    /\ \E a, b \in UIDs :
          /\ Cardinality(WeightRecordsOf(a)) = 2
          /\ Cardinality(EpisodeRecordsOf(a)) = 2
          /\ Cardinality({i \in Rows : merged_df[i].UID = a}) = 4
          /\ WeightRecordsOf(b) = {}
          /\ EpisodeRecordsOf(b) = {}
          /\ \E i \in Rows : /\ merged_df[i].UID = b
                             /\ merged_df[i].Weight = NaN
                             /\ merged_df[i].TreatmentTypeID = NaN

\* the records of one patient
OfPatient(table, uid) ==
    SelectSeq(table, LAMBDA r : r.MasterUserID = uid)

RowsOfPatient(df, uid) ==
    SelectSeq([i \in Indices(df) |-> Columns(df[i])],
              LAMBDA r : r.UID = uid)

\* C8: the metrics on a patient's rows depend on that patient's records
\* only: the pipeline run on the patient's records alone gives the rows
\* the patient has in the table of the whole input
C8_PatientIsolation ==
    Computed =>
        \A uid \in UIDs :
            RowsOfPatient(merged_df, uid) =
                RowsOfPatient(
                    metrics_table(impl, cohort,
                                  SelectSeq(users, LAMBDA r : r.UID = uid),
                                  OfPatient(weights, uid),
                                  OfPatient(treatments, uid)),
                    uid)

\* C9: patient_TBWL is positive when the first weight of a cohort group is
\* greater than the first weight of the next cohort group of the episode
\* (weight lost), and negative when it is smaller (weight gained)
C9_SignConvention ==
    Computed =>
        \A i, j \in Rows :
            (InCohort(i) /\ IsNextCohort(i, j)) =>
                /\ FirstWeight(i) > FirstWeight(j) =>
                      merged_df[i].patient_TBWL > 0
                /\ FirstWeight(i) < FirstWeight(j) =>
                      /\ merged_df[i].patient_TBWL # NaN
                      /\ merged_df[i].patient_TBWL < 0

Bucketed ==
    pc \in {"bucketed", "weigh_in_rate", "starting_weights", "treatment_TBWL",
            "metrics"}

\* index of the cohort that holds day 0 of an episode
FirstIndex(im) == IF im = "analytics" THEN 1 ELSE 0

\* C10 as stated: in the pandas implementations week = floor(d / 7) and
\* month = floor(d / 30.44) for the difference d in days, both 0-based or
\* both shifted by +1, and a weigh-in before the episode start gets a
\* negative index
C10_AsStated ==
    (impl # "polars" /\ Bucketed) =>
        \A i \in Rows :
            LET d == datediff(merged_df[i])
            IN d # NaN =>
                /\ \E shift \in {0, 1} :
                      /\ merged_df[i].week = (d \div (DaysInWeek * Day)) + shift
                      /\ merged_df[i].month = (d \div 3044) + shift
                /\ d < 0 => (merged_df[i].week < 0 /\ merged_df[i].month < 0)

\* C10 (amended): analytics_data_model.py sets week = floor(d / 7) + 1 and
\* month = floor(d / 30.44) + 1; pandas_DataModel.py sets
\* week = floor(d / 7) and month = floor(whole days of d / 30.417); in both
\* a weigh-in before the episode start gets an index below the index of
\* day 0 of the episode, and a weigh-in from the start on does not
C10_CohortIndices ==
    (impl # "polars" /\ Bucketed) =>
        \A i \in Rows :
            LET d == datediff(merged_df[i])
                w == merged_df[i].week - FirstIndex(impl)
                m == merged_df[i].month - FirstIndex(impl)
            IN d # NaN =>
                /\ w * DaysInWeek * Day <= d
                /\ d < (w + 1) * DaysInWeek * Day
                /\ impl = "analytics" =>
                      (m * 3044 <= d /\ d < (m + 1) * 3044)
                /\ impl = "pandas" =>
                      /\ m * 30417 <= Days(d) * 1000
                      /\ Days(d) * 1000 < (m + 1) * 30417
                /\ d < 0 <=> merged_df[i].week < FirstIndex(impl)
                /\ d < 0 <=> merged_df[i].month < FirstIndex(impl)

\* analytics_data_model.py with a weigh-in four days before the start of
\* one episode (week 0, month 0) and half a day past day 30 of another
\* (week 5, month 2)
C10_Witness ==
    /\ pc = "bucketed"
    /\ impl = "analytics"
    /\ \E i, j \in Rows :
          /\ datediff(merged_df[i]) = -4 * Day
          /\ merged_df[i].week = 0 /\ merged_df[i].month = 0
          /\ datediff(merged_df[j]) = 30 * Day + 50
          /\ merged_df[j].week = 5 /\ merged_df[j].month = 2

\* C11: the table returned by each of the three implementations never
\* holds two rows that are equal on every column
C11_NoDuplicateRows ==
    pc = "returned" =>
        \A i, j \in Rows :
            i # j => Columns(merged_df[i]) # Columns(merged_df[j])

\* C12: after the sort the cohort index is non-decreasing along the rows
\* of every episode, the rows of a cohort group are contiguous and the
\* groups of an episode follow each other in ascending cohort order
C12_CohortsInOrder ==
    Bucketed =>
        \A i, j \in Rows :
            (i < j /\ InEpisode(i) /\ SameEpisode(i, j)) =>
                /\ Cv(i) <= Cv(j)
                /\ \A k \in Rows :
                      (i < k /\ k < j) =>
                          /\ SameEpisode(i, k)
                          /\ SameCohort(i, j) => SameCohort(i, k)

\* two episodes with two cohort groups each, from a weights.csv that lists
\* the later weigh-in first: the join leaves the rows of the episodes
\* interleaved and the cohorts in descending order
C12_Witness ==
    /\ pc = "bucketed"
    /\ Len(weights) >= 2
    /\ weights[1].MasterUserID = weights[2].MasterUserID
    /\ weights[1].CreatedDate > weights[2].CreatedDate
    /\ \E i, j, k \in Rows :
          /\ i < j /\ j < k
          /\ InCohort(i) /\ SameEpisode(i, j) /\ Cv(i) < Cv(j)
          /\ InCohort(k) /\ merged_df[k].UID = merged_df[i].UID
          /\ ~SameEpisode(i, k)
          /\ \E m \in Rows : SameEpisode(k, m) /\ Cv(k) < Cv(m)

====
